---- MODULE Spec2Model ----
(***************************************************************************)
(* Model of the package messagingutilities: the three senders             *)
(* SendSMTPEmailMessage, SendTwilioSmsMessage and                          *)
(* SendAfricasTalkingSmsMessage.  The repository carries two versions of   *)
(* the Africa's Talking sender: src/MessagingUtilities.go (JSON payload,   *)
(* cost-marker check; actions AT_...) and src/unnamed/part_000 (form       *)
(* payload, recipient-list check; actions AT2_...).  Both are modelled.    *)
(*                                                                         *)
(* A single caller issues calls one after the other.  Each sender is a     *)
(* sequence of steps (pc); the environment (SMTP server, Twilio, the       *)
(* Africa's Talking endpoint) answers nondeterministically.                *)
(*                                                                         *)
(* Strings the code inspects (port, receiver, response status text) are    *)
(* sequences of one-character strings; strings it only passes on are TLA+  *)
(* strings.  A Go pointer is <<>> (nil) or <<v>> (pointing at v).          *)
(* Calls are made with non-nil credentials, a non-nil receivers list and   *)
(* non-nil attachment names (section 4.1: both are required), and every    *)
(* EmailAttachment carries a stream of its own.  Third-party packages      *)
(* (gomail, twilio-go, net/http) are modelled at their call boundary.      *)
(***************************************************************************)
EXTENDS Integers, Sequences, FiniteSets, TLC

\* ------------------------------------------------------------------ bounds
MaxCalls == 2
MaxPortLen == 2
MaxAttachments == 2
MaxReceiverLen == 2
MaxRecipients == 2

\* --------------------------------------------------------- program constants
StatusOK == 200
StatusCreated == 201

\* ------------------------------------------------------------------ strings
NIL == <<>>
Ptr(v) == <<v>>
Deref(p) == p[1]

SentTo == <<"S","e","n","t"," ","t","o"," ","1","/","1"," ">>
PaidCost == <<"T","o","t","a","l"," ","C","o","s","t",":"," ","K","E","S"," ","1",".","5","0">>
NearMiss == <<"T","o","t","a","l"," ","C","o","s","t",":"," ","K","E","S"," ","0",".","0">>
InvalidApiKey == <<"I","n","v","a","l","i","d"," ","a","p","i","K","e","y">>

\* The literal of strings.Contains(..., "Total Cost: KES 0.00").
CostMarker == <<"T","o","t","a","l"," ","C","o","s","t",":"," ","K","E","S"," ","0",".","0","0">>

\* strings.Contains(s, substr)
Contains(s, substr) ==
    \E i \in 0..(Len(s) - Len(substr)) : SubSeq(s, i + 1, i + Len(substr)) = substr

\* All sequences over S of length at most n.
RECURSIVE SeqsUpTo(_, _)
SeqsUpTo(S, n) ==
    IF n = 0 THEN {<<>>}
    ELSE LET shorter == SeqsUpTo(S, n - 1)
         IN  shorter \cup {Append(s, c) : s \in {t \in shorter : Len(t) = n - 1}, c \in S}

\* ------------------------------------------------------------- strconv.Atoi
Digits == <<"0","1","2","3","4","5","6","7","8","9">>
IsDigit(c) == \E d \in 1..10 : Digits[d] = c
DigitVal(c) == (CHOOSE d \in 1..10 : Digits[d] = c) - 1

RECURSIVE DecimalValue(_)
DecimalValue(s) ==
    IF s = <<>> THEN 0
    ELSE 10 * DecimalValue(SubSeq(s, 1, Len(s) - 1)) + DigitVal(s[Len(s)])

\* port, _ := strconv.Atoi(s)
AtoiErrorDropped(s) == [err |-> FALSE, n |-> 0]

\* strconv.Atoi(s): an optional sign followed by at least one decimal digit.
\* (The strings of the model are far too short to leave the int range.)
Atoi(s) ==
    LET signed == s # <<>> /\ s[1] \in {"+", "-"}
        digits == IF signed THEN Tail(s) ELSE s
        ok     == digits # <<>> /\ \A i \in 1..Len(digits) : IsDigit(digits[i])
    IN  IF ~ok THEN [err |-> TRUE, n |-> 0]
        ELSE [err |-> FALSE,
              n   |-> IF signed /\ s[1] = "-" THEN 0 - DecimalValue(digits)
                      ELSE DecimalValue(digits)]

\* ------------------------------------------------------------------- errors
NoBody == [t |-> "none", s |-> <<>>, smd |-> <<"absent">>]

\* fmt.Errorf(format, args...): the format string and its arguments
\* (code: a %d status, body: a %s raw body, text: a %s status text,
\* cause: a wrapped %w error).
Errorf(format, code, body, text, cause) ==
    [fmt |-> format, code |-> code, body |-> body, text |-> text, cause |-> cause]

\* The nil error.
NoError == Errorf("<nil>", 0, NoBody, <<>>, "")

\* An error of a collaborator returned as it is.
Verbatim(cause) == Errorf("%v", 0, NoBody, <<>>, cause)

\* -------------------------------------------------------- the inputs drawn
PortChars == {"5", "a", "-", "+"}
Ports == SeqsUpTo(PortChars, MaxPortLen)

Names == {"a.txt", "b.txt"}
Datas == {<<1>>, <<2, 3>>}
\* A list of EmailAttachment values: Name points at a name, Data is a
\* stream holding content (see readers).
AttachmentLists == SeqsUpTo([Name : {Ptr(n) : n \in Names}, content : Datas], MaxAttachments)

ReceiverChars == {"7", ","}
Receivers == {NIL} \cup {Ptr(r) : r \in SeqsUpTo(ReceiverChars, MaxReceiverLen)}
Messages == {NIL, Ptr("hello")}
Subjects == {NIL, Ptr("subject")}

SMTPCreds(p) ==
    [Host |-> "smtp.example.com", Port |-> p, User |-> "user",
     Sender |-> "sender@example.com", Password |-> "secret", UseTLS |-> TRUE]
TwilioCreds ==
    [AccountSID |-> "AC1", AuthToken |-> "token",
     SenderPhoneNumber |-> "+15550100", SenderName |-> "name"]
ATCreds == [ApiKey |-> "key", Username |-> "sandbox", SenderID |-> "SENDER"]

\* ------------------------------------------------- the provider's responses
Statuses == {StatusOK, StatusCreated, 401, 500}

Texts ==
    {p \o m \o s : p \in {<<>>, SentTo},
                   m \in {<<>>, CostMarker, PaidCost, NearMiss},
                   s \in {<<>>, <<"0">>}}

\* A JSON value for the key "Message".
MessageVals == {<<"absent">>, <<"null">>, <<"num">>} \cup {<<"str", t>> : t \in Texts}
\* A JSON value for the key "Recipients": an array of objects, each with
\* the key "status" as the provider sends it.
RecipientVals ==
    {<<"absent">>, <<"null">>, <<"num">>}
        \cup {<<"arr", a>> : a \in SeqsUpTo({"Success", "Failed"}, MaxRecipients)}
\* A JSON value for the key "SMSMessageData".
SMDVals ==
    {<<"absent">>, <<"null">>, <<"num">>}
        \cup {<<"obj", m, r>> : m \in MessageVals, r \in RecipientVals}

\* A response body: text that is not JSON (t = "text", the empty body
\* included), or the JSON documents null, a string, an array, an object.
Bodies ==
    {[t |-> "text", s |-> x, smd |-> <<"absent">>] : x \in {<<>>, InvalidApiKey}}
        \cup {[t |-> "string", s |-> InvalidApiKey, smd |-> <<"absent">>]}
        \cup {[t |-> k, s |-> <<>>, smd |-> <<"absent">>] : k \in {"null", "array"}}
        \cup {[t |-> "object", s |-> <<>>, smd |-> v] : v \in SMDVals}

NoResp == [StatusCode |-> 0, Body |-> NoBody, open |-> FALSE, read |-> "unread"]
NoATResp == [Message |-> <<>>, Recipients |-> <<>>]
NoRequest == [Method |-> "", URL |-> "", ContentType |-> "", Accept |-> "",
              apiKey |-> "", payload |-> <<>>]
NoMessage == [From |-> "", To |-> <<>>, Subject |-> NIL, Body |-> NIL, Attachments |-> <<>>]

\* ---------------------------------------------------------------- the state
VARIABLES
    pc,           \* position of the caller: "idle" or a step of the sender fn
    fn,           \* the sender called last: "none", "SMTP", "Twilio", "AT", "AT2"
    credentials,  \* argument credentials (dereferenced)
    subject,      \* argument subject *string (SMTP)
    message,      \* argument message *string
    isHtml,       \* argument isHtml (SMTP)
    attachments,  \* argument attachments (SMTP): <<[Name, Data]>>, Data a stream id
    receivers,    \* argument receivers (SMTP)
    receiver,     \* argument receiver *string (Twilio, Africa's Talking)
    readers,      \* the io.Reader streams: id -> [content, pos]
    message_,     \* local message_ of SendSMTPEmailMessage
    port,         \* local port of SendSMTPEmailMessage
    params,       \* local params of SendTwilioSmsMessage
    request,      \* local request of SendAfricasTalkingSmsMessage
    resp,         \* local resp of SendAfricasTalkingSmsMessage, with its Body stream
    atResp,       \* local atResp of SendAfricasTalkingSmsMessage
    err,          \* the error the call returned
    outcome,      \* "running", "returned" or "panicked"
    delivered,    \* what the SMTP server received from the call: <<>> or <<message>>
    callRequests, \* network requests/connections issued by the call
    requests,     \* network requests/connections issued by all calls
    passed,       \* calls made so far whose arguments are valid (see ValidArgs)
    calls         \* calls made so far

vars == <<pc, fn, credentials, subject, message, isHtml, attachments, receivers,
          receiver, readers, message_, port, params, request, resp, atResp, err,
          outcome, delivered, callRequests, requests, passed, calls>>

args == <<credentials, subject, message, isHtml, attachments, receivers, receiver, readers>>
locals == <<message_, port, params, request, resp, atResp>>
counters == <<callRequests, requests, passed, calls>>

Init ==
    /\ pc = "idle"
    /\ fn = "none"
    /\ credentials = ATCreds
    /\ subject = NIL
    /\ message = NIL
    /\ isHtml = FALSE
    /\ attachments = <<>>
    /\ receivers = <<>>
    /\ receiver = NIL
    /\ readers = <<>>
    /\ message_ = NoMessage
    /\ port = 0
    /\ params = <<>>
    /\ request = NoRequest
    /\ resp = NoResp
    /\ atResp = NoATResp
    /\ err = NoError
    /\ outcome = "returned"
    /\ delivered = <<>>
    /\ callRequests = 0
    /\ requests = 0
    /\ passed = 0
    /\ calls = 0


\* ------------------------------------------------------ calling a sender
\* s is the decimal text of an integer: an optional sign, then digits.
IsIntegerText(s) ==
    LET unsigned == IF s # <<>> /\ s[1] \in {"+", "-"} THEN Tail(s) ELSE s
    IN  /\ Len(unsigned) >= 1
        /\ \A i \in 1..Len(unsigned) :
               unsigned[i] \in {"0", "1", "2", "3", "4", "5", "6", "7", "8", "9"}

\* The arguments satisfy what the sender requires of them: a port that is a
\* number (SMTP), a message body and a recipient (SMS), and for the
\* form-payload version of the Africa's Talking sender a single recipient.
ValidArgs(f, creds, msg, rcv) ==
    CASE f = "SMTP" -> IsIntegerText(creds.Port)
      [] f = "AT2"  -> msg # NIL /\ rcv # NIL /\ "," \notin {Deref(rcv)[i] : i \in 1..Len(Deref(rcv))}
      [] OTHER      -> msg # NIL /\ rcv # NIL

\* The values a call leaves nothing of: arguments and locals of no call.
Fresh ==
    /\ fn' = "none"
    /\ credentials' = ATCreds
    /\ subject' = NIL
    /\ message' = NIL
    /\ isHtml' = FALSE
    /\ attachments' = <<>>
    /\ receivers' = <<>>
    /\ receiver' = NIL
    /\ readers' = <<>>
    /\ message_' = NoMessage
    /\ port' = 0
    /\ params' = <<>>
    /\ request' = NoRequest
    /\ resp' = NoResp
    /\ atResp' = NoATResp
    /\ err' = NoError
    /\ outcome' = "returned"
    /\ delivered' = <<>>
    /\ callRequests' = 0

\* The caller is between calls (and the model has calls left to make).
CanCall ==
    /\ pc = "idle"
    /\ calls < MaxCalls

\* Entry of a call: the arguments are bound, the locals are fresh.
Enter(f, creds, subj, msg, html, atts, rcvs, rcv) ==
    /\ fn' = f
    /\ credentials' = creds
    /\ subject' = subj
    /\ message' = msg
    /\ isHtml' = html
    /\ attachments' = [i \in 1..Len(atts) |-> [Name |-> atts[i].Name, Data |-> i]]
    /\ readers' = [i \in 1..Len(atts) |-> [content |-> atts[i].content, pos |-> 0]]
    /\ receivers' = rcvs
    /\ receiver' = rcv
    /\ outcome' = "running"
    /\ calls' = calls + 1
    /\ passed' = IF ValidArgs(f, creds, msg, rcv) THEN passed + 1 ELSE passed
    /\ UNCHANGED <<locals, err, delivered, callRequests, requests>>

\* The call is over (pc = "done") and the caller goes on: nothing of the
\* call outlives it, its arguments, locals and result are dropped.
CallerContinues ==
    /\ pc = "done"
    /\ pc' = "idle"
    /\ Fresh
    /\ UNCHANGED <<requests, passed, calls>>

\* return e
Return(e) ==
    /\ err' = e
    /\ outcome' = "returned"

\* A nil pointer dereference: the call panics and returns nothing.
Panic ==
    /\ err' = NoError
    /\ outcome' = "panicked"

\* One request (or connection) goes out to the provider.
IssueRequestTwice(n) == n + 2
IssueRequest(n) == n + 1

\* if message == nil
CheckOmitted(m) == FALSE
MessageMissing(m) == m = NIL

\* ------------------------------------------------- SendSMTPEmailMessage
CallSendSMTPEmailMessage ==
    /\ CanCall
    /\ \E p \in Ports, subj \in Subjects, msg \in Messages, html \in BOOLEAN,
       atts \in AttachmentLists :
        /\ Enter("SMTP", SMTPCreds(p), subj, msg, html, atts, <<"to@example.com">>, NIL)
        /\ pc' = "smtp_build"

\* The variable a closure created in iteration i of an n-iteration
\* "for _, reader := range" loop reads when it runs after the loop: go.mod
\* says go 1.25.3, so every iteration has a variable of its own.
SharedLoopVariable(i, n) == n
CapturedIteration(i, n) == i

\* message_.Attach(*reader.Name, SetHeader(...), SetCopyFunc(closure)) for
\* every entry, in order.
AttachAll(atts) ==
    [i \in 1..Len(atts) |->
        [Name |-> Deref(atts[i].Name),
         ContentType |-> "application/octet-stream",
         CopyFrom |-> atts[CapturedIteration(i, Len(atts))].Data]]

SMTP_BuildMessage ==
    /\ pc = "smtp_build"
    /\ fn = "SMTP"
    /\ message_' =
          [From |-> credentials.Sender,
           To |-> receivers,
           Subject |-> subject,
           Body |-> IF message # NIL
                    THEN Ptr([mime |-> IF isHtml THEN "text/html" ELSE "text/plain",
                              text |-> Deref(message)])
                    ELSE NIL,
           Attachments |-> AttachAll(attachments)]
    /\ pc' = "smtp_port"
    /\ UNCHANGED <<fn, args, port, params, request, resp, atResp, err, outcome,
                   delivered, counters>>

SMTP_ParsePort ==
    /\ pc = "smtp_port"
    /\ fn = "SMTP"
    /\ LET r == Atoi(credentials.Port)
       IN  IF r.err
           THEN /\ Return(Errorf("Invalid port number: %w", 0, NoBody, credentials.Port, "strconv.Atoi"))
                /\ pc' = "done"
                /\ UNCHANGED port
           ELSE /\ port' = r.n
                /\ pc' = "smtp_dial"
                /\ UNCHANGED <<err, outcome>>
    /\ UNCHANGED <<fn, args, message_, params, request, resp, atResp, delivered, counters>>

\* io.Copy(w, r): everything left in the stream r is written, r is at its end.
Remaining(r) == SubSeq(r.content, r.pos + 1, Len(r.content))

\* Writing the message to the server runs every attachment's copy
\* function, in order, against the streams rdrs.
RECURSIVE WriteAttachments(_, _, _)
WriteAttachments(files, rdrs, out) ==
    IF files = <<>> THEN [out |-> out, readers |-> rdrs]
    ELSE LET f == Head(files)
             r == rdrs[f.CopyFrom]
         IN  WriteAttachments(
                 Tail(files),
                 [rdrs EXCEPT ![f.CopyFrom].pos = Len(r.content)],
                 Append(out, [Name |-> f.Name, ContentType |-> f.ContentType,
                              Bytes |-> Remaining(r)]))

\* dialer.DialAndSend(message_): one connection; the dial fails, or the
\* transaction fails, or the server receives the message.
SMTP_DialAndSend ==
    /\ pc = "smtp_dial"
    /\ fn = "SMTP"
    /\ callRequests' = IssueRequest(callRequests)
    /\ requests' = IssueRequest(requests)
    /\ \E result \in {"dial failed", "send failed", "sent"} :
          IF result = "sent"
          THEN LET w == WriteAttachments(message_.Attachments, readers, <<>>)
               IN  /\ delivered' = <<[From |-> message_.From, To |-> message_.To,
                                      Subject |-> message_.Subject, Body |-> message_.Body,
                                      Attachments |-> w.out]>>
                   /\ readers' = w.readers
                   /\ Return(NoError)
          ELSE /\ Return(Verbatim(result))
               /\ UNCHANGED <<delivered, readers>>
    /\ pc' = "done"
    /\ UNCHANGED <<fn, credentials, subject, message, isHtml, attachments, receivers,
                   receiver, locals, passed, calls>>

\* ------------------------------------------------- SendTwilioSmsMessage
CallSendTwilioSmsMessage ==
    /\ CanCall
    /\ \E msg \in Messages, rcv \in Receivers :
        /\ Enter("Twilio", TwilioCreds, NIL, msg, FALSE, <<>>, <<>>, rcv)
        /\ pc' = "tw_check"

\* The client is made (no network), then the body is checked.
TW_Validate ==
    /\ pc = "tw_check"
    /\ fn = "Twilio"
    /\ IF MessageMissing(message)
       THEN /\ Return(Errorf("Message body and receivers cannot be empty", 0, NoBody, <<>>, ""))
            /\ pc' = "done"
       ELSE /\ pc' = "tw_params"
            /\ UNCHANGED <<err, outcome>>
    /\ UNCHANGED <<fn, args, locals, delivered, counters>>

\* params.SetBody(*message); params.SetFrom(...); params.SetTo(*receiver)
TW_BuildParams ==
    /\ pc = "tw_params"
    /\ fn = "Twilio"
    /\ IF message = NIL \/ receiver = NIL
       THEN /\ Panic
            /\ pc' = "done"
            /\ UNCHANGED params
       ELSE /\ params' = <<[Body |-> Deref(message),
                            From |-> credentials.SenderPhoneNumber,
                            To |-> Deref(receiver)]>>
            /\ pc' = "tw_create"
            /\ UNCHANGED <<err, outcome>>
    /\ UNCHANGED <<fn, args, message_, port, request, resp, atResp, delivered, counters>>

\* client.Api.CreateMessage(params): one request; its error is returned as it is.
TW_CreateMessage ==
    /\ pc = "tw_create"
    /\ fn = "Twilio"
    /\ callRequests' = IssueRequest(callRequests)
    /\ requests' = IssueRequest(requests)
    /\ \E e \in {NoError, Verbatim("twilio: request failed")} : Return(e)
    /\ pc' = "done"
    /\ UNCHANGED <<fn, args, locals, delivered, passed, calls>>

\* ----------------------------------------- SendAfricasTalkingSmsMessage
\* Steps the two versions of the sender share.

\* request.Header.Set(...): the headers of both versions but Content-Type.
NewRequest(url, contentType, payload) ==
    [Method |-> "POST", URL |-> url, ContentType |-> contentType,
     Accept |-> "application/json", apiKey |-> credentials.ApiKey, payload |-> payload]

\* client.Do(request): one request; a transport failure returns at once
\* (there is no response to close), otherwise resp holds the status and an
\* open body, and resp.Body.Close() is deferred.
DoRequest(next) ==
    /\ callRequests' = IssueRequest(callRequests)
    /\ requests' = IssueRequest(requests)
    /\ \/ /\ err' = Errorf("Failed to execute http request: %w", 0, NoBody, <<>>, "transport")
          /\ outcome' = "returned"
          /\ pc' = "done"
          /\ UNCHANGED resp
       \/ \E code \in Statuses, body \in Bodies :
             /\ resp' = [StatusCode |-> code, Body |-> body, open |-> TRUE, read |-> "unread"]
             /\ pc' = next
             /\ UNCHANGED <<err, outcome>>
    /\ UNCHANGED <<fn, args, message_, port, params, request, atResp, delivered, passed, calls>>

\* if resp.StatusCode != http.StatusCreated && resp.StatusCode != http.StatusOK
RejectsClientErrorsOnly(code) == code # StatusCreated /\ code # StatusOK /\ code < 500
StatusRejected(code) == code # StatusCreated /\ code # StatusOK

\* fmt.Errorf("Africa's talking API failed with status %d. Response body: %s", ...)
RejectionError(code, body) ==
    Errorf("Africa's talking API failed with status %d. Response body: %s",
           code, body, <<>>, "")

\* The status check: a rejected status reads the whole body (io.ReadAll)
\* and returns the rejection error.
CheckStatus(next, deferred) ==
    /\ IF StatusRejected(resp.StatusCode)
       THEN /\ resp' = [resp EXCEPT !.read = "ReadAll"]
            /\ err' = RejectionError(resp.StatusCode, resp.Body)
            /\ pc' = deferred
       ELSE /\ pc' = next
            /\ UNCHANGED <<resp, err>>
    /\ UNCHANGED <<fn, args, message_, port, params, request, atResp, outcome,
                   delivered, counters>>

\* The deferred resp.Body.Close() runs, then the call returns err.
LeaveOpen(r) == r
CloseBody(r) == [r EXCEPT !.open = FALSE]

RunDeferred ==
    /\ resp' = CloseBody(resp)
    /\ outcome' = "returned"
    /\ pc' = "done"
    /\ UNCHANGED <<fn, args, message_, port, params, request, atResp, err,
                   delivered, counters>>

\* json.NewDecoder(resp.Body).Decode(&atResp) into
\* struct{ SMSMessageData struct{ Message string } }: a body that is not
\* JSON, or a JSON value of another type than the field it meets, is an
\* error; null and missing keys leave the zero value; other keys are skipped.
DecodeATResp(body) ==
    CASE body.t = "null" -> [err |-> FALSE, val |-> NoATResp]
      [] body.t = "object" ->
            LET smd == body.smd IN
            CASE smd[1] \in {"absent", "null"} -> [err |-> FALSE, val |-> NoATResp]
              [] smd[1] = "obj" ->
                    LET m == smd[2] IN
                    CASE m[1] \in {"absent", "null"} -> [err |-> FALSE, val |-> NoATResp]
                      [] m[1] = "str" ->
                            [err |-> FALSE, val |-> [Message |-> m[2], Recipients |-> <<>>]]
                      [] OTHER -> [err |-> TRUE, val |-> NoATResp]
              [] OTHER -> [err |-> TRUE, val |-> NoATResp]
      [] OTHER -> [err |-> TRUE, val |-> NoATResp]

\* The same into struct{ SMSMessageData struct{ Message string;
\* Recipients []atSmsResponseRecipient } }.  atSmsResponseRecipient has the
\* one field status, which is unexported: encoding/json never sets it.
DecodeATResp2(body) ==
    LET d == DecodeATResp(body) IN
    IF body.t = "object" /\ body.smd[1] = "obj"
    THEN LET r == body.smd[3] IN
         CASE r[1] \in {"absent", "null"} -> d
           [] r[1] = "arr" ->
                 [err |-> d.err,
                  val |-> [Message |-> d.val.Message,
                           Recipients |-> [k \in 1..Len(r[2]) |-> [status |-> ""]]]]
           [] OTHER -> [err |-> TRUE, val |-> d.val]
    ELSE d

AmbiguousError ==
    Errorf("Successfully sent, but failed to parse response: %w", 0, NoBody, <<>>, "json")

\* ------------------- SendAfricasTalkingSmsMessage, src/MessagingUtilities.go
CallSendAfricasTalkingSmsMessage ==
    /\ CanCall
    /\ \E msg \in Messages, rcv \in Receivers :
        /\ Enter("AT", ATCreds, NIL, msg, FALSE, <<>>, <<>>, rcv)
        /\ pc' = "at_check"

AT_Validate ==
    /\ pc = "at_check"
    /\ fn = "AT"
    /\ IF MessageMissing(message)
       THEN /\ Return(Errorf("Message body cannot be empty", 0, NoBody, <<>>, ""))
            /\ pc' = "done"
       ELSE /\ pc' = "at_build"
            /\ UNCHANGED <<err, outcome>>
    /\ UNCHANGED <<fn, args, locals, delivered, counters>>

\* The JSON payload and the POST request; *receiver and *message are read.
AT_BuildRequest ==
    /\ pc = "at_build"
    /\ fn = "AT"
    /\ IF message = NIL \/ receiver = NIL
       THEN /\ Panic
            /\ pc' = "done"
            /\ UNCHANGED request
       ELSE /\ request' = NewRequest("https://api.africastalking.com/version1/messaging",
                                     "application/json",
                                     <<[username |-> credentials.Username,
                                        to |-> Deref(receiver),
                                        message |-> Deref(message),
                                        from |-> credentials.SenderID]>>)
            /\ pc' = "at_do"
            /\ UNCHANGED <<err, outcome>>
    /\ UNCHANGED <<fn, args, message_, port, params, resp, atResp, delivered, counters>>

AT_Do ==
    /\ pc = "at_do"
    /\ fn = "AT"
    /\ DoRequest("at_status")

AT_CheckStatus ==
    /\ pc = "at_status"
    /\ fn = "AT"
    /\ CheckStatus("at_decode", "at_defer")

AT_Decode ==
    /\ pc = "at_decode"
    /\ fn = "AT"
    /\ resp' = [resp EXCEPT !.read = "Decode"]
    /\ LET d == DecodeATResp(resp.Body)
       IN  IF d.err
           THEN /\ err' = AmbiguousError
                /\ pc' = "at_defer"
                /\ UNCHANGED atResp
           ELSE /\ atResp' = d.val
                /\ pc' = "at_cost"
                /\ UNCHANGED err
    /\ UNCHANGED <<fn, args, message_, port, params, request, outcome, delivered, counters>>

\* strings.Contains(atResp.SMSMessageData.Message, "Total Cost: KES 0.00")
LooksUnbilled(text) == Contains(text, CostMarker)

AT_CheckCost ==
    /\ pc = "at_cost"
    /\ fn = "AT"
    /\ err' = IF LooksUnbilled(atResp.Message)
              THEN Errorf("africa's talking send likely failed. Check API key/username. Response: %s",
                          0, NoBody, atResp.Message, "")
              ELSE NoError
    /\ pc' = "at_defer"
    /\ UNCHANGED <<fn, args, locals, outcome, delivered, counters>>

AT_CloseBody ==
    /\ pc = "at_defer"
    /\ fn = "AT"
    /\ RunDeferred

\* ---------------------- SendAfricasTalkingSmsMessage, src/unnamed/part_000
CallSendAfricasTalkingSmsMessage2 ==
    /\ CanCall
    /\ \E msg \in Messages, rcv \in Receivers :
        /\ Enter("AT2", ATCreds, NIL, msg, FALSE, <<>>, <<>>, rcv)
        /\ pc' = "at2_check"

\* if message == nil ...; if strings.Contains(*receiver, ",") ...
AT2_Validate ==
    /\ pc = "at2_check"
    /\ fn = "AT2"
    /\ IF MessageMissing(message)
       THEN /\ Return(Errorf("Message body cannot be empty", 0, NoBody, <<>>, ""))
            /\ pc' = "done"
       ELSE IF receiver = NIL
       THEN /\ Panic
            /\ pc' = "done"
       ELSE IF Contains(Deref(receiver), <<",">>)
       THEN /\ Return(Errorf("Multiple receivers may hav been passed", 0, NoBody, <<>>, ""))
            /\ pc' = "done"
       ELSE /\ pc' = "at2_build"
            /\ UNCHANGED <<err, outcome>>
    /\ UNCHANGED <<fn, args, locals, delivered, counters>>

\* The form payload (url.Values) and the POST request.
AT2_BuildRequest ==
    /\ pc = "at2_build"
    /\ fn = "AT2"
    /\ IF message = NIL \/ receiver = NIL
       THEN /\ Panic
            /\ pc' = "done"
            /\ UNCHANGED request
       ELSE /\ request' = NewRequest("https://api.africastalking.com/version1/messaging",
                                     "application/x-www-form-urlencoded",
                                     <<[username |-> credentials.Username,
                                        to |-> Deref(receiver),
                                        message |-> Deref(message),
                                        from |-> credentials.SenderID]>>)
            /\ pc' = "at2_do"
            /\ UNCHANGED <<err, outcome>>
    /\ UNCHANGED <<fn, args, message_, port, params, resp, atResp, delivered, counters>>

AT2_Do ==
    /\ pc = "at2_do"
    /\ fn = "AT2"
    /\ DoRequest("at2_status")

AT2_CheckStatus ==
    /\ pc = "at2_status"
    /\ fn = "AT2"
    /\ CheckStatus("at2_decode", "at2_defer")

AT2_Decode ==
    /\ pc = "at2_decode"
    /\ fn = "AT2"
    /\ resp' = [resp EXCEPT !.read = "Decode"]
    /\ LET d == DecodeATResp2(resp.Body)
       IN  IF d.err
           THEN /\ err' = AmbiguousError
                /\ pc' = "at2_defer"
                /\ UNCHANGED atResp
           ELSE /\ atResp' = d.val
                /\ pc' = "at2_recipients"
                /\ UNCHANGED err
    /\ UNCHANGED <<fn, args, message_, port, params, request, outcome, delivered, counters>>

\* if len(Recipients) != 1 ...; for each recipient: if status != "" ...
AT2_CheckRecipients ==
    /\ pc = "at2_recipients"
    /\ fn = "AT2"
    /\ err' = IF Len(atResp.Recipients) # 1
              THEN Errorf("Sent recipient list is empty.", 0, NoBody, <<>>, "")
              ELSE IF \E k \in 1..Len(atResp.Recipients) : atResp.Recipients[k].status # ""
              THEN Errorf("Message could not be sent", 0, NoBody, <<>>, "")
              ELSE NoError
    /\ pc' = "at2_defer"
    /\ UNCHANGED <<fn, args, locals, outcome, delivered, counters>>

AT2_CloseBody ==
    /\ pc = "at2_defer"
    /\ fn = "AT2"
    /\ RunDeferred

Next ==
    \/ CallerContinues
    \/ CallSendSMTPEmailMessage
    \/ SMTP_BuildMessage
    \/ SMTP_ParsePort
    \/ SMTP_DialAndSend
    \/ CallSendTwilioSmsMessage
    \/ TW_Validate
    \/ TW_BuildParams
    \/ TW_CreateMessage
    \/ CallSendAfricasTalkingSmsMessage
    \/ AT_Validate
    \/ AT_BuildRequest
    \/ AT_Do
    \/ AT_CheckStatus
    \/ AT_Decode
    \/ AT_CheckCost
    \/ AT_CloseBody
    \/ CallSendAfricasTalkingSmsMessage2
    \/ AT2_Validate
    \/ AT2_BuildRequest
    \/ AT2_Do
    \/ AT2_CheckStatus
    \/ AT2_Decode
    \/ AT2_CheckRecipients
    \/ AT2_CloseBody

Spec == Init /\ [][Next]_vars


\* ------------------------------------------------------------ the claims
\* The error kinds of section 7, by the message of the error returned.
Kind(e) ==
    CASE e = NoError -> "success"
      [] e.fmt \in {"Message body and receivers cannot be empty",
                    "Message body cannot be empty",
                    "Multiple receivers may hav been passed"} -> "validation"
      [] e.fmt = "Invalid port number: %w" -> "configuration"
      [] e.fmt \in {"Failed to execute http request: %w", "%v"} -> "transport"
      [] e.fmt = "Africa's talking API failed with status %d. Response body: %s" -> "rejection"
      [] e.fmt = "Successfully sent, but failed to parse response: %w" -> "ambiguous"
      [] e.fmt \in {"africa's talking send likely failed. Check API key/username. Response: %s",
                    "Sent recipient list is empty.",
                    "Message could not be sent"} -> "logical"
      [] OTHER -> "unknown"

SixOutcomes == {"validation", "transport", "rejection", "ambiguous", "logical", "success"}

ATSenders == {"AT", "AT2"}
SmsSenders == {"Twilio", "AT", "AT2"}

\* The call is over and the provider had answered with HTTP 200 or 201.
AnsweredSuccess ==
    /\ pc = "done"
    /\ fn \in ATSenders
    /\ message # NIL
    /\ resp.StatusCode \in {200, 201}

\* The body is a JSON object {"SMSMessageData": {"Message": <text>, ...}}.
BodyHasMessage(b) ==
    /\ b.t = "object"
    /\ b.smd[1] = "obj"
    /\ b.smd[2][1] = "str"
BodyMessage(b) == b.smd[2][2]

\* C1: a call of SendAfricasTalkingSmsMessage with a message body that the
\* provider answers with HTTP 200 or 201 and a JSON body whose
\* SMSMessageData.Message contains "Total Cost: KES 0.00" returns a
\* logical-failure error that includes the raw status text.  (Bodies whose
\* other key, "Recipients", holds a value of the wrong JSON type are left
\* aside: they do not decode.)
C1_ZeroCostIsLogicalFailure ==
    (/\ AnsweredSuccess
     /\ BodyHasMessage(resp.Body)
     /\ resp.Body.smd[3][1] # "num"
     /\ Contains(BodyMessage(resp.Body), CostMarker))
        => /\ outcome = "returned"
           /\ Kind(err) = "logical"
           /\ err.text = BodyMessage(resp.Body)

\* C2: a call of SendAfricasTalkingSmsMessage with a message body that the
\* provider answers with HTTP 200 or 201 and the body
\* {"SMSMessageData": {"Message": <text>}}, <text> without
\* "Total Cost: KES 0.00", returns nil; nothing more is asked of the response.
C2_BilledResponseIsSuccess ==
    (/\ AnsweredSuccess
     /\ BodyHasMessage(resp.Body)
     /\ resp.Body.smd[3] = <<"absent">>
     /\ ~Contains(BodyMessage(resp.Body), CostMarker))
        => /\ outcome = "returned"
           /\ err = NoError

C4_RejectedStatusIsRejectionError ==
    (fn \in ATSenders /\ resp.StatusCode \notin {0, 200, 201})
        => /\ resp.read # "Decode"
           /\ atResp = NoATResp
           /\ pc \notin {"at_decode", "at_cost", "at2_decode", "at2_recipients"}
           /\ pc = "done" => /\ outcome = "returned"
                             /\ Kind(err) = "rejection"
                             /\ err.code = resp.StatusCode
                             /\ err.body = resp.Body
                             /\ resp.read = "ReadAll"

C4_Witness ==
    /\ pc = "done"
    /\ fn = "AT"
    /\ resp.StatusCode = 401
    /\ resp.Body = [t |-> "string", s |-> InvalidApiKey, smd |-> <<"absent">>]
    /\ err.code = 401
    /\ err.body.s = InvalidApiKey

\* C5: a call of SendAfricasTalkingSmsMessage answered with HTTP 200 or 201 and
\* a body that is not JSON returns the ambiguous-outcome error, and every
\* call returns exactly one of the six outcomes validation, transport,
\* rejection, ambiguous, logical failure, success.
C5_UndecodableIsAmbiguousOneOutcomePerCall ==
    /\ (AnsweredSuccess /\ resp.Body.t = "text")
          => (outcome = "returned" /\ Kind(err) = "ambiguous")
    /\ (pc = "done" /\ fn \in ATSenders)
          => (outcome = "returned" /\ Kind(err) \in SixOutcomes)

\* C6: a call of SendSMTPEmailMessage whose Port is not the text of an
\* integer never reaches the dial/send step, attempts no connection, and
\* returns the configuration error naming the port.
C6_BadPortIsConfigurationError ==
    (fn = "SMTP" /\ ~IsIntegerText(credentials.Port))
        => /\ callRequests = 0
           /\ pc # "smtp_dial"
           /\ delivered = <<>>
           /\ pc = "done" => /\ outcome = "returned"
                             /\ Kind(err) = "configuration"
                             /\ err.text = credentials.Port

C6_Witness ==
    /\ pc = "done"
    /\ fn = "SMTP"
    /\ credentials.Port = <<"5", "a">>
    /\ Len(attachments) = 2
    /\ Kind(err) = "configuration"
    /\ callRequests = 0

\* C7: a call of SendTwilioSmsMessage or SendAfricasTalkingSmsMessage with a
\* message body and a nil recipient returns a validation error and issues
\* no network request.
C7_MissingRecipientIsValidationError ==
    (pc = "done" /\ fn \in SmsSenders /\ message # NIL /\ receiver = NIL)
        => /\ outcome = "returned"
           /\ Kind(err) = "validation"
           /\ callRequests = 0

\* C8: when a call of SendAfricasTalkingSmsMessage returns, whatever the exit
\* path, no response body it opened is still open.
C8_BodyClosedAtReturn ==
    pc \in {"done", "idle"} => ~resp.open

C8_Witness ==
    /\ pc = "done"
    /\ fn = "AT"
    /\ resp.StatusCode = 200
    /\ resp.read = "Decode"
    /\ Kind(err) = "ambiguous"
    /\ ~resp.open

C10_OneRequestPerValidCall ==
    /\ callRequests <= 1
    /\ pc \in {"done", "idle"} => requests = passed
    /\ pc = "done" =>
          callRequests = IF ValidArgs(fn, credentials, message, receiver) THEN 1 ELSE 0

C10_Witness ==
    /\ pc = "done"
    /\ calls = 2
    /\ passed = 2
    /\ requests = 2
    /\ Kind(err) = "transport"

====
